---- MODULE Spec2Model ----
(***************************************************************************)
(* Model of the tag-aware content filter of perspective_daily_extractor.py *)
(* (TagMatcher and PerspectiveDailyArticleParser).                         *)
(*                                                                         *)
(* Strings are sequences of one-character strings, so that strip(),        *)
(* isspace(), string concatenation and the anti-tag regular expression are *)
(* computed character by character as Python computes them.                *)
(***************************************************************************)
EXTENDS Integers, Sequences, FiniteSets, TLC

VARIABLES
    ignore_stack,   \* PerspectiveDailyArticleParser._ignore_stack
    text,           \* PerspectiveDailyArticleParser._text
    warnings,       \* number of LOG.warning / LOG.warn records written so far
    fed,            \* the tokens HTMLParser.feed has dispatched so far, in order
    was_empty,      \* per dispatched token: was _ignore_stack empty when it arrived
    op,             \* the method that ran last
    raised,         \* the exception that left a handler, "none" if none did
    ret,            \* value returned by the last get_text() call
    m_tag,          \* TagMatcher._tag of the matcher under test
    m_attributes,   \* TagMatcher._attributes of the matcher under test
    m_arg,          \* (tag, attrs) of the last TagMatcher.match call
    m_ret,          \* value returned by the last TagMatcher.match call
    calls,          \* handle_endtag calls (the first and its retries) the last end tag took
    class_attrs,    \* the class attributes (tables) of PerspectiveDailyArticleParser
    parsers,        \* two PerspectiveDailyArticleParser instances fed side by side
    produced,       \* an output of the filter whose lines are fed to a fresh filter
    lines,          \* the lines of produced still to be fed
    config_file,    \* the value under the key of known numbers in the configuration file
    written,        \* how often the configuration file has been opened for writing
    numbers,        \* the numbers argument of the last append_write_known_numbers_to_config
    identifiers_to_get,      \* __main__: the identifiers to download
    session_latest_article,  \* __main__: what log_in returned, <<>> before any login
    article,        \* the last get_article_by_number call: its inputs and what it returned
    powers,         \* the last Number._get_some_powers call: its arguments and result
    magazine        \* a Magazine: its _texts and _text_hashes, and the pages parsed

vars == <<ignore_stack, text, warnings, fed, was_empty, op, raised, ret,
          m_tag, m_attributes, m_arg, m_ret,
          calls, class_attrs, parsers, produced, lines,
          config_file, written, numbers, identifiers_to_get, session_latest_article,
          article, powers, magazine>>

parser_vars == <<ignore_stack, text, warnings, fed, was_empty, op, raised, ret, calls>>
matcher_vars == <<m_tag, m_attributes, m_arg, m_ret>>
pair_vars == <<class_attrs, parsers>>
refeed_vars == <<produced, lines>>
config_vars == <<config_file, written, numbers, identifiers_to_get, session_latest_article>>
tool_vars == <<config_vars, article, powers, magazine>>

----------------------------------------------------------------------------
(* Characters and strings *)

\* characters for which Python's str.isspace() is true (ASCII part)
Whitespace == {" ", "\t", "\n", "\r", "\f"}

\* the character class [a-zA-Z]
Letter ==
    {"a","b","c","d","e","f","g","h","i","j","k","l","m",
     "n","o","p","q","r","s","t","u","v","w","x","y","z",
     "A","B","C","D","E","F","G","H","I","J","K","L","M",
     "N","O","P","Q","R","S","T","U","V","W","X","Y","Z"}

isspace(c) == c \in Whitespace

RECURSIVE lstrip(_)
lstrip(s) ==
    IF s # <<>> /\ isspace(Head(s)) THEN lstrip(Tail(s)) ELSE s

RECURSIVE rstrip(_)
rstrip(s) ==
    IF s # <<>> /\ isspace(s[Len(s)]) THEN rstrip(SubSeq(s, 1, Len(s) - 1)) ELSE s

\* str.strip()
strip(s) == rstrip(lstrip(s))

\* str.startswith
startswith(s, prefix) ==
    /\ Len(s) >= Len(prefix)
    /\ SubSeq(s, 1, Len(prefix)) = prefix

\* the longest prefix of s made of characters of class cls
RECURSIVE span_of(_, _)
span_of(s, cls) ==
    IF s # <<>> /\ Head(s) \in cls THEN <<Head(s)>> \o span_of(Tail(s), cls) ELSE <<>>

\* set(list)
RECURSIVE to_set(_)
to_set(l) == IF l = <<>> THEN {} ELSE {Head(l)} \cup to_set(Tail(l))

----------------------------------------------------------------------------
(* Tag names *)

SPAN == <<"s","p","a","n">>
CITE == <<"c","i","t","e">>
Q == <<"q">>
FIGURE == <<"f","i","g","u","r","e">>
DIV == <<"d","i","v">>
BR == <<"b","r">>
INPUT == <<"i","n","p","u","t">>
IMG == <<"i","m","g">>
P == <<"p">>
\* tag names the tokenizer delivers that no table lists: h1 and h
H1 == <<"h", "1">>
H == <<"h">>

class_info == <<"class", "info">>
class_quote == <<"class", "quote">>
class_script == <<"class", "script">>
id_x == <<"id", "x">>

----------------------------------------------------------------------------
(* TagMatcher *)

\* TagMatcher.__init__: the fields of a new matcher
TagMatcher(tag, attributes) ==
    [tag |-> strip(tag), attributes |-> to_set(attributes)]

\* TagMatcher.match with the call reading the attribute set it was not given
match_ignores_attributes(self, tag, attrs) ==
    self.tag = strip(tag)

\* TagMatcher.match
match(self, tag, attrs) ==
    IF self.tag # strip(tag)
    THEN FALSE
    ELSE self.attributes \subseteq to_set(attrs)

----------------------------------------------------------------------------
(* PerspectiveDailyArticleParser: class attributes *)

IGNORE_LIST ==
    << TagMatcher(SPAN, <<class_info>>),
       TagMatcher(CITE, <<>>),
       TagMatcher(Q, <<class_quote>>),
       TagMatcher(FIGURE, <<>>),
       TagMatcher(DIV, <<class_script>>) >>

NEVER_CLOSED_TAGS == {BR, INPUT}

SOMETIMES_NOT_CLOSED_TAGS == {IMG}

ANTI_TAG_PREFIX == <<"_","_","a","n","t","i","_","t","a","g","_","_">>

\* _ANTI_TAG_RE.match(s): group(1) of the match, or <<>> when there is no match
\* (the group is never empty when the pattern matches)
ANTI_TAG_RE_match(s) ==
    IF startswith(s, ANTI_TAG_PREFIX)
    THEN span_of(SubSeq(s, Len(ANTI_TAG_PREFIX) + 1, Len(s)), Letter)
    ELSE <<>>

CLOSING_TAG_ENDLINE_LIST == {P}

\* the test of line 257 looking at the tag names of _IGNORE_LIST only
is_ignored_by_name(tag, attrs) ==
    \E i \in 1..Len(IGNORE_LIST) : match_ignores_attributes(IGNORE_LIST[i], tag, attrs)

\* the test of line 257 with an ignore rule for img too
is_ignored_or_image(tag, attrs) ==
    \/ \E i \in 1..Len(IGNORE_LIST) : match(IGNORE_LIST[i], tag, attrs)
    \/ tag = IMG

\* any(ignored.match(tag, attrs) for ignored in _IGNORE_LIST)
is_ignored(tag, attrs) ==
    \E i \in 1..Len(IGNORE_LIST) : match(IGNORE_LIST[i], tag, attrs)

pop(stack) == SubSeq(stack, 1, Len(stack) - 1)

\* the two characters appended for a paragraph end
nn == <<"\n", "\n">>

top(stack) == stack[Len(stack)]

\* handle_starttag putting a tag opened in an ignored section under the frames
\* of the stack (insert(0, tag)), not on top of them
handle_starttag_pushes_at_bottom(stack, tag, attrs) ==
    IF stack # <<>>
    THEN IF tag \in NEVER_CLOSED_TAGS
         THEN stack
         ELSE LET group1 == ANTI_TAG_RE_match(top(stack)) IN
              IF group1 # <<>> /\ tag = group1
              THEN pop(stack)
              ELSE <<tag>> \o stack
    ELSE IF is_ignored(tag, attrs)
         THEN Append(stack, tag)
         ELSE stack

\* handle_starttag without the _NEVER_CLOSED_TAGS test of an ignored section
handle_starttag_pushes_void(stack, tag, attrs) ==
    IF stack # <<>>
    THEN LET group1 == ANTI_TAG_RE_match(top(stack)) IN
         IF group1 # <<>> /\ tag = group1
         THEN pop(stack)
         ELSE Append(stack, tag)
    ELSE IF is_ignored(tag, attrs)
         THEN Append(stack, tag)
         ELSE stack

\* PerspectiveDailyArticleParser.handle_starttag: the new _ignore_stack
handle_starttag(stack, tag, attrs) ==
    IF stack # <<>>
    THEN IF tag \in NEVER_CLOSED_TAGS
         THEN stack
         ELSE LET group1 == ANTI_TAG_RE_match(top(stack)) IN
              IF group1 # <<>> /\ tag = group1
              THEN pop(stack)
              ELSE Append(stack, tag)
    ELSE IF is_ignored(tag, attrs)
         THEN Append(stack, tag)
         ELSE stack

\* Nested calls of handle_endtag the interpreter allows before it raises
\* RecursionError (sys.getrecursionlimit() less the frames already in use),
\* scaled down
RecursionLimit == 3

\* handle_endtag popping whatever is on top, whichever end tag arrives
handle_endtag_pops_any(self, tag, depth) ==
    IF self.stack # <<>>
    THEN [self EXCEPT !.stack = pop(@)]
    ELSE IF tag \in CLOSING_TAG_ENDLINE_LIST
         THEN [self EXCEPT !.text = @ \o nn]
         ELSE self

\* handle_endtag without the _NEVER_CLOSED_TAGS branch
RECURSIVE handle_endtag_expects_void(_, _, _)
handle_endtag_expects_void(self, tag, depth) ==
    IF depth > RecursionLimit
    THEN [self EXCEPT !.raised = "RecursionError"]
    ELSE
    IF self.stack # <<>>
    THEN IF top(self.stack) = tag
         THEN [self EXCEPT !.stack = pop(@)]
         ELSE IF top(self.stack) \in SOMETIMES_NOT_CLOSED_TAGS
         THEN handle_endtag_expects_void(
                  [self EXCEPT !.stack = pop(@), !.warnings = @ + 2], tag, depth + 1)
         ELSE [self EXCEPT !.stack = Append(@, ANTI_TAG_PREFIX \o tag),
                           !.warnings = @ + 1]
    ELSE IF tag \in CLOSING_TAG_ENDLINE_LIST
         THEN [self EXCEPT !.text = @ \o nn]
         ELSE self

\* handle_endtag appending the double newline of a stray paragraph-closing end
\* tag inside an ignored section too
RECURSIVE handle_endtag_newline_when_ignoring(_, _, _)
handle_endtag_newline_when_ignoring(self, tag, depth) ==
    IF depth > RecursionLimit
    THEN [self EXCEPT !.raised = "RecursionError"]
    ELSE
    IF self.stack # <<>>
    THEN IF top(self.stack) = tag
         THEN [self EXCEPT !.stack = pop(@)]
         ELSE IF tag \in NEVER_CLOSED_TAGS
         THEN [self EXCEPT !.warnings = @ + 1]
         ELSE IF top(self.stack) \in SOMETIMES_NOT_CLOSED_TAGS
         THEN handle_endtag_newline_when_ignoring(
                  [self EXCEPT !.stack = pop(@), !.warnings = @ + 2], tag, depth + 1)
         ELSE [self EXCEPT !.stack = Append(@, ANTI_TAG_PREFIX \o tag),
                           !.warnings = @ + 1,
                           !.text = IF tag \in CLOSING_TAG_ENDLINE_LIST
                                    THEN @ \o nn ELSE @]
    ELSE IF tag \in CLOSING_TAG_ENDLINE_LIST
         THEN [self EXCEPT !.text = @ \o nn]
         ELSE self

\* handle_endtag pushing the anti-tag without the LOG.warn of line 279
RECURSIVE handle_endtag_silent_recovery(_, _, _)
handle_endtag_silent_recovery(self, tag, depth) ==
    IF depth > RecursionLimit
    THEN [self EXCEPT !.raised = "RecursionError"]
    ELSE
    IF self.stack # <<>>
    THEN IF top(self.stack) = tag
         THEN [self EXCEPT !.stack = pop(@)]
         ELSE IF tag \in NEVER_CLOSED_TAGS
         THEN [self EXCEPT !.warnings = @ + 1]
         ELSE IF top(self.stack) \in SOMETIMES_NOT_CLOSED_TAGS
         THEN handle_endtag_silent_recovery(
                  [self EXCEPT !.stack = pop(@), !.warnings = @ + 2], tag, depth + 1)
         ELSE [self EXCEPT !.stack = Append(@, ANTI_TAG_PREFIX \o tag)]
    ELSE IF tag \in CLOSING_TAG_ENDLINE_LIST
         THEN [self EXCEPT !.text = @ \o nn]
         ELSE self

\* PerspectiveDailyArticleParser.handle_endtag on
\* self = [stack, text, warnings, raised, calls], entered as the depth-th
\* nested call: the new values of the fields (calls: the calls entered)
RECURSIVE handle_endtag(_, _, _)
handle_endtag(self, tag, depth) ==
    IF depth > RecursionLimit
    THEN [self EXCEPT !.raised = "RecursionError"]
    ELSE
    IF self.stack # <<>>
    THEN IF top(self.stack) = tag
         THEN [self EXCEPT !.stack = pop(@), !.calls = depth]
         ELSE IF tag \in NEVER_CLOSED_TAGS
         THEN [self EXCEPT !.warnings = @ + 1, !.calls = depth]
         ELSE IF top(self.stack) \in SOMETIMES_NOT_CLOSED_TAGS
         THEN handle_endtag([self EXCEPT !.stack = pop(@), !.warnings = @ + 2,
                                         !.calls = depth],
                            tag, depth + 1)
         ELSE [self EXCEPT !.stack = Append(@, ANTI_TAG_PREFIX \o tag),
                           !.warnings = @ + 1, !.calls = depth]
    ELSE IF tag \in CLOSING_TAG_ENDLINE_LIST
         THEN [self EXCEPT !.text = @ \o nn, !.calls = depth]
         ELSE [self EXCEPT !.calls = depth]

\* handle_data appending the data as it came, not data.strip()
handle_data_unstripped(stack, old, data) ==
    IF stack # <<>>
    THEN old
    ELSE LET separator ==
                 IF /\ data # <<>>
                    /\ old # <<>>
                    /\ ~isspace(old[Len(old)])
                    /\ ~isspace(data[1])
                 THEN <<" ">>
                 ELSE <<>>
         IN old \o (separator \o data)

\* handle_data removing only the leading whitespace of the data
handle_data_lstripped(stack, old, data) ==
    IF stack # <<>>
    THEN old
    ELSE LET stripped == lstrip(data)
             separator ==
                 IF /\ stripped # <<>>
                    /\ old # <<>>
                    /\ ~isspace(old[Len(old)])
                    /\ ~isspace(stripped[1])
                 THEN <<" ">>
                 ELSE <<>>
         IN old \o (separator \o stripped)

\* handle_data separating without the test of the last character of _text
handle_data_always_separates(stack, old, data) ==
    IF stack # <<>>
    THEN old
    ELSE LET stripped == strip(data)
             separator ==
                 IF stripped # <<>> /\ old # <<>> THEN <<" ">> ELSE <<>>
         IN old \o (separator \o stripped)

\* handle_data separating the new text from the old by a newline
handle_data_newline_separator(stack, old, data) ==
    IF stack # <<>>
    THEN old
    ELSE LET stripped == strip(data)
             separator ==
                 IF /\ stripped # <<>>
                    /\ old # <<>>
                    /\ ~isspace(old[Len(old)])
                    /\ ~isspace(stripped[1])
                 THEN <<"\n">>
                 ELSE <<>>
         IN old \o (separator \o stripped)

\* handle_data never separating the new text from the old
handle_data_no_separator(stack, old, data) ==
    IF stack # <<>> THEN old ELSE old \o strip(data)

\* PerspectiveDailyArticleParser.handle_data: the new _text
handle_data(stack, old, data) ==
    IF stack # <<>>
    THEN old
    ELSE LET stripped == strip(data)
             separator ==
                 IF /\ stripped # <<>>
                    /\ old # <<>>
                    /\ ~isspace(old[Len(old)])
                    /\ ~isspace(stripped[1])
                 THEN <<" ">>
                 ELSE <<>>
         IN old \o (separator \o stripped)

\* get_text returning the text without its trailing whitespace
get_text_stripped(t) == strip(t)

\* PerspectiveDailyArticleParser.get_text: the returned value
get_text(t) == t

----------------------------------------------------------------------------
(* Tokens the tokenizer (HTMLParser.feed) dispatches to the handlers *)

StartTok(tag, attrs) == [kind |-> "start", tag |-> tag, attrs |-> attrs, data |-> <<>>]
EndTok(tag) == [kind |-> "end", tag |-> tag, attrs |-> <<>>, data |-> <<>>]
DataTok(data) == [kind |-> "data", tag |-> <<>>, attrs |-> <<>>, data |-> data]

\* longest arbitrary token sequence explored; longer inputs are the Documents
MaxTokens == 4
\* most paragraphs of a document made of <p>text</p> pairs only
MaxParagraphs == 2

Hello == <<"H","e","l","l","o">>
World == <<"W","o","r","l","d">>
after == <<"a","f","t","e","r">>
more == <<"m","o","r","e">>
skip_me == <<"s","k","i","p"," ","m","e">>
Remaining_text == <<"R","e","m","a","i","n","i","n","g"," ","t","e","x","t",".">>

span_info == StartTok(SPAN, <<class_info>>)

\* tokens of which every sequence up to MaxTokens is explored
Tokens ==
    { span_info,
      StartTok(SPAN, <<>>),
      StartTok(P, <<>>),
      StartTok(BR, <<>>),
      StartTok(IMG, <<>>),
      EndTok(SPAN),
      EndTok(P),
      EndTok(BR),
      EndTok(IMG),
      DataTok(<<"a">>),
      DataTok(<<" ", "b", "\n">>),
      DataTok(<<" ", "\n">>) }

\* text nodes of the paragraph-only documents
ParagraphData == {Hello, World, <<" ", "a", " ", "b", " ">>, <<" ">>, <<>>}

\* <p>text</p> with the given text node
Paragraph(data) == <<StartTok(P, <<>>), DataTok(data), EndTok(P)>>

\* documents of exactly n well-formed <p>text</p> pairs
RECURSIVE ParagraphDocs(_)
ParagraphDocs(n) ==
    IF n = 0 THEN {<<>>}
    ELSE {d \o Paragraph(data) : d \in ParagraphDocs(n - 1), data \in ParagraphData}

\* <p>Hello</p><p>World</p>
Example1 == Paragraph(Hello) \o Paragraph(World)
\* <cite>skip me</cite>Remaining text.
Example2 == <<StartTok(CITE, <<>>), DataTok(skip_me), EndTok(CITE), DataTok(Remaining_text)>>
\* <span class="info">x</span>text<p>more</p>
Example3 ==
    <<span_info, DataTok(<<"x">>), EndTok(SPAN), DataTok(<<"t","e","x","t">>)>>
        \o Paragraph(more)
\* <span class="info">a</p>b</span>after
Example4 ==
    <<span_info, DataTok(<<"a">>), EndTok(P), DataTok(<<"b">>), EndTok(SPAN), DataTok(after)>>
\* <span class="info">a<br>b</span>
VoidInside ==
    <<span_info, DataTok(<<"a">>), StartTok(BR, <<>>), DataTok(<<"b">>), EndTok(SPAN)>>
\* <span class="info">ab</span>
NoVoidInside == <<span_info, DataTok(<<"a","b">>), EndTok(SPAN)>>
\* <figure><div><img></div></figure>after
ImgThenEnclosingEnd ==
    <<StartTok(FIGURE, <<>>), StartTok(DIV, <<>>), StartTok(IMG, <<>>),
      EndTok(DIV), EndTok(FIGURE), DataTok(after)>>
\* <span class="info"><img></p></span>after
ImgThenStrayEnd ==
    <<span_info, StartTok(IMG, <<>>), EndTok(P), EndTok(SPAN), DataTok(after)>>

\* <cite><input></input><span><br>x</span></cite>after
WellFormedRegion ==
    <<StartTok(CITE, <<>>), StartTok(INPUT, <<>>), EndTok(INPUT), StartTok(SPAN, <<>>),
      StartTok(BR, <<>>), DataTok(<<"x">>), EndTok(SPAN), EndTok(CITE), DataTok(after)>>

\* <cite></h1><h1> : a stray end tag, then a start tag of the same name
StrayEndThenSameStart == <<StartTok(CITE, <<>>), EndTok(H1), StartTok(H1, <<>>)>>
\* <cite></h1><h> : a stray end tag, then a start tag of another name
StrayEndThenOtherStart == <<StartTok(CITE, <<>>), EndTok(H1), StartTok(H, <<>>)>>

\* <q class="info">a<div class="script" id="x"> : a required attribute with
\* another value, then a rule matched with an extra attribute
PartlyMatching ==
    <<StartTok(Q, <<class_info>>), DataTok(<<"a">>), EndTok(Q),
      StartTok(DIV, <<class_script, id_x>>)>>

\* <cite></h1><h/> : a stray end tag, then a self-closing tag of another name
SelfClosingAfterStrayEnd == StrayEndThenOtherStart \o <<EndTok(H)>>

RECURSIVE Repeat(_, _)
Repeat(tok, n) == IF n = 0 THEN <<>> ELSE <<tok>> \o Repeat(tok, n - 1)

\* <cite><img><img>...</cite>after with as many unclosed <img> as nested calls
\* are allowed
ManyUnclosedImages ==
    <<StartTok(CITE, <<>>)>> \o Repeat(StartTok(IMG, <<>>), RecursionLimit)
        \o <<EndTok(CITE), DataTok(after)>>

\* the inputs longer than MaxTokens that are fed
Documents ==
    {Example1, Example2, Example3, Example4, VoidInside, NoVoidInside,
     ImgThenEnclosingEnd, ImgThenStrayEnd, WellFormedRegion, ManyUnclosedImages,
     StrayEndThenSameStart, StrayEndThenOtherStart, PartlyMatching,
     SelfClosingAfterStrayEnd}
        \cup UNION {ParagraphDocs(n) : n \in 0..MaxParagraphs}

IsPrefix(s, d) == Len(s) <= Len(d) /\ SubSeq(d, 1, Len(s)) = s

\* the tokens that may come next: any token while the input is short, and the
\* next token of every document the input so far begins
NextTokens ==
    (IF Len(fed) < MaxTokens THEN Tokens ELSE {})
        \cup {d[Len(fed) + 1] : d \in {e \in Documents : Len(e) > Len(fed) /\ IsPrefix(fed, e)}}

----------------------------------------------------------------------------
(* Parser instances as values *)

\* the class attributes of lines 195-221, which every instance reads
ClassAttributes ==
    [ _IGNORE_LIST |-> IGNORE_LIST,
      _NEVER_CLOSED_TAGS |-> NEVER_CLOSED_TAGS,
      _SOMETIMES_NOT_CLOSED_TAGS |-> SOMETIMES_NOT_CLOSED_TAGS,
      _ANTI_TAG_PREFIX |-> ANTI_TAG_PREFIX,
      _CLOSING_TAG_ENDLINE_LIST |-> CLOSING_TAG_ENDLINE_LIST ]

\* PerspectiveDailyArticleParser(): the instance attributes __init__ creates,
\* with the fragment the instance is going to be fed and the tokens dispatched
new_parser(fragment) ==
    [ fragment |-> fragment, pos |-> 0,
      stack |-> <<>>, text |-> <<>>, warnings |-> 0, raised |-> "none", calls |-> 0 ]

\* one handler call on the instance self: the instance afterwards
handle(self, tok) ==
    CASE tok.kind = "start" ->
            [self EXCEPT !.stack = handle_starttag(@, tok.tag, tok.attrs)]
      [] tok.kind = "end" ->
            handle_endtag([self EXCEPT !.calls = 0], tok.tag, 1)
      [] OTHER ->
            [self EXCEPT !.text = handle_data(self.stack, @, tok.data)]

\* feed dispatching the next token of its fragment to instance i, while
\* _ignore_stack is one list shared by the instances (a class attribute)
feed_token_shared_stack(ps, i) ==
    LET tok == ps[i].fragment[ps[i].pos + 1]
        after_call == handle(ps[i], tok)
    IN [j \in DOMAIN ps |->
           IF j = i THEN [after_call EXCEPT !.pos = @ + 1]
           ELSE [ps[j] EXCEPT !.stack = after_call.stack]]

\* feed dispatching the next token of its fragment to instance i of ps: the
\* handlers assign self._ignore_stack and self._text of that instance only
feed_token(ps, i) ==
    LET tok == ps[i].fragment[ps[i].pos + 1]
    IN [ps EXCEPT ![i] = [handle(ps[i], tok) EXCEPT !.pos = @ + 1]]

\* the instance after feed has dispatched the first n tokens of fragment to it
RECURSIVE fed_alone(_, _)
fed_alone(fragment, n) ==
    IF n = 0 THEN new_parser(fragment)
    ELSE LET before == fed_alone(fragment, n - 1) IN
         IF before.raised # "none" THEN before
         ELSE [handle(before, fragment[n]) EXCEPT !.pos = n]

----------------------------------------------------------------------------
(* The parser as a state machine *)

no_matcher == TagMatcher(<<>>, <<>>)

\* no pair of instances is running
PairIdle ==
    /\ class_attrs = ClassAttributes
    /\ parsers = <<>>

\* no output is being fed again
RefeedIdle ==
    /\ produced = <<>>
    /\ lines = <<>>

\* no configuration file is in use and __main__ has not started
ConfigIdle ==
    /\ config_file = [section |-> FALSE, key |-> FALSE, value |-> <<>>]
    /\ written = 0
    /\ numbers = <<>>
    /\ identifiers_to_get = {}
    /\ session_latest_article = <<>>

\* no article has been requested
ArticleIdle == article = [called |-> FALSE]

\* Number._get_some_powers has not been called
PowersIdle == powers = [called |-> FALSE]

\* no Magazine has been constructed
MagazineIdle == magazine = [_texts |-> <<>>, _text_hashes |-> {}, pages |-> <<>>]

ToolsIdle == ConfigIdle /\ ArticleIdle /\ PowersIdle /\ MagazineIdle

ParserInit ==
    /\ ignore_stack = <<>>
    /\ text = <<>>
    /\ warnings = 0
    /\ fed = <<>>
    /\ was_empty = <<>>
    /\ op = "__init__"
    /\ raised = "none"
    /\ ret = <<>>
    /\ calls = 0

MatcherIdle ==
    /\ m_tag = no_matcher.tag
    /\ m_attributes = no_matcher.attributes
    /\ m_arg = <<>>
    /\ m_ret = FALSE

Init == ParserInit /\ MatcherIdle /\ PairIdle /\ RefeedIdle /\ ToolsIdle

\* bookkeeping of one dispatched token
Dispatch(tok) ==
    /\ fed' = Append(fed, tok)
    /\ was_empty' = Append(was_empty, ignore_stack = <<>>)
    /\ op' = tok.kind

StartTag ==
    \E tok \in NextTokens :
        /\ tok.kind = "start"
        /\ raised = "none"
        /\ ignore_stack' = handle_starttag(ignore_stack, tok.tag, tok.attrs)
        /\ Dispatch(tok)
        /\ UNCHANGED <<text, warnings, raised, ret, calls>>
        /\ UNCHANGED <<matcher_vars, pair_vars, refeed_vars, tool_vars>>

EndTag ==
    \E tok \in NextTokens :
        /\ tok.kind = "end"
        /\ raised = "none"
        /\ LET after_call ==
                   handle_endtag([stack |-> ignore_stack, text |-> text,
                                  warnings |-> warnings, raised |-> raised,
                                  calls |-> 0],
                                 tok.tag, 1)
           IN /\ ignore_stack' = after_call.stack
              /\ text' = after_call.text
              /\ warnings' = after_call.warnings
              /\ raised' = after_call.raised
              /\ calls' = after_call.calls
        /\ Dispatch(tok)
        /\ UNCHANGED ret
        /\ UNCHANGED <<matcher_vars, pair_vars, refeed_vars, tool_vars>>

Data ==
    \E tok \in NextTokens :
        /\ tok.kind = "data"
        /\ raised = "none"
        /\ text' = handle_data(ignore_stack, text, tok.data)
        /\ Dispatch(tok)
        /\ UNCHANGED <<ignore_stack, warnings, raised, ret, calls>>
        /\ UNCHANGED <<matcher_vars, pair_vars, refeed_vars, tool_vars>>

\* the caller reads the text; it does not get here once feed has raised
GetText ==
    /\ raised = "none"
    /\ ret' = get_text(text)
    /\ op' = "get_text"
    /\ UNCHANGED <<ignore_stack, text, warnings, fed, was_empty, raised, calls>>
    /\ UNCHANGED <<matcher_vars, pair_vars, refeed_vars, tool_vars>>

Next == StartTag \/ EndTag \/ Data \/ GetText

Spec == Init /\ [][Next]_vars

----------------------------------------------------------------------------
(* TagMatcher.match as a state machine: a matcher is constructed, then called *)

\* tag names given to TagMatcher(...) and to match(...)
MatchTags ==
    {SPAN, Q, CITE, <<" ">> \o SPAN, SPAN \o <<"\n">>, <<"s","p","a">>, <<"s"," ","p","a","n">>}

\* attribute lists given to TagMatcher(...) and to match(...)
MatchAttrs ==
    { <<>>, <<class_info>>, <<class_quote>>, <<id_x>>,
      <<class_info, id_x>>, <<id_x, class_info>>, <<class_info, class_info>>,
      <<class_quote, class_info>> }

\* tag names given to TagMatcher(...): those of MatchTags, the empty name and a
\* name of whitespace only
ConstructorTags == MatchTags \cup {<<>>, <<" ">>}

\* TagMatcher.__init__ has no raise statement: it returns for every tag and
\* every attribute list, so the state after construction has raised = "none"
MatchInit ==
    /\ ParserInit
    /\ PairIdle
    /\ RefeedIdle
    /\ ToolsIdle
    /\ \E tag \in ConstructorTags, attributes \in MatchAttrs :
          /\ m_tag = TagMatcher(tag, attributes).tag
          /\ m_attributes = TagMatcher(tag, attributes).attributes
    /\ m_arg = <<>>
    /\ m_ret = FALSE

MatchCall ==
    \E tag \in MatchTags, attrs \in MatchAttrs :
        /\ m_arg' = <<tag, attrs>>
        /\ m_ret' = match([tag |-> m_tag, attributes |-> m_attributes], tag, attrs)
        /\ UNCHANGED <<m_tag, m_attributes>>
        /\ UNCHANGED <<parser_vars, pair_vars, refeed_vars, tool_vars>>

MatchNext == MatchCall

SpecMatch == MatchInit /\ [][MatchNext]_vars

----------------------------------------------------------------------------
(* Two parser instances whose token handling is interleaved *)

\* the fragments the two instances are fed
Fragments ==
    {Example1, Example3, Example4, ImgThenEnclosingEnd, ImgThenStrayEnd,
     ManyUnclosedImages}

\* two instances are constructed, each for a fragment of its own
PairInit ==
    /\ ParserInit
    /\ MatcherIdle
    /\ RefeedIdle
    /\ ToolsIdle
    /\ class_attrs = ClassAttributes
    /\ \E f1 \in Fragments, f2 \in Fragments :
          /\ f1 # f2
          /\ parsers = <<new_parser(f1), new_parser(f2)>>

\* the feed of instance i dispatches its next token; no handler assigns a
\* class attribute
FeedToken(i) ==
    /\ parsers[i].pos < Len(parsers[i].fragment)
    /\ parsers[i].raised = "none"
    /\ parsers' = feed_token(parsers, i)
    /\ UNCHANGED class_attrs
    /\ UNCHANGED <<parser_vars, matcher_vars, refeed_vars, tool_vars>>

PairNext == \E i \in DOMAIN parsers : FeedToken(i)

SpecPair == PairInit /\ [][PairNext]_vars

----------------------------------------------------------------------------
(* An output of the filter fed again, line by line, to a fresh filter *)

\* a<two spaces>b<newline> c</p>d<tab> e : text nodes with whitespace inside
InnerWhitespace ==
    <<DataTok(<<"a"," "," ","b","\n"," ","c">>), EndTok(P),
      DataTok(<<"d","\t"," ","e"," ">>)>>

\* the documents whose outputs are fed again
RefeedDocs ==
    Documents \cup {InnerWhitespace}
        \cup {InnerWhitespace \o d : d \in ParagraphDocs(1)}
        \cup {d \o InnerWhitespace : d \in ParagraphDocs(1)}

\* the lines of s: the pieces between its newline characters
RECURSIVE split_lines(_)
split_lines(s) ==
    LET newlines == {k \in 1..Len(s) : s[k] = "\n"} IN
    IF newlines = {} THEN <<s>>
    ELSE LET k == CHOOSE n \in newlines : \A o \in newlines : n <= o
         IN <<SubSeq(s, 1, k - 1)>> \o split_lines(SubSeq(s, k + 1, Len(s)))

\* a filter has returned an output for one of the documents, and a fresh
\* filter (empty stack, empty text) is about to be fed its lines
RefeedInit ==
    /\ ParserInit
    /\ MatcherIdle
    /\ PairIdle
    /\ ToolsIdle
    /\ \E d \in RefeedDocs :
          /\ fed_alone(d, Len(d)).raised = "none"
          /\ produced = get_text(fed_alone(d, Len(d)).text)
    /\ lines = split_lines(produced)

\* the next line is fed as one text token: handle_data(line)
RefeedLine ==
    /\ lines # <<>>
    /\ text' = handle_data(ignore_stack, text, Head(lines))
    /\ Dispatch(DataTok(Head(lines)))
    /\ lines' = Tail(lines)
    /\ UNCHANGED <<ignore_stack, warnings, raised, ret, calls, produced>>
    /\ UNCHANGED <<matcher_vars, pair_vars, tool_vars>>

RefeedNext == RefeedLine

SpecRefeed == RefeedInit /\ [][RefeedNext]_vars

----------------------------------------------------------------------------
(* spokenNumbersDe.py: Number._get_power and Number._get_some_powers *)

\* largest number of the range of numbers, largest smallest_power and largest
\* number_decimals the helper is called with
MaxNumber == 120
MaxPower == 3
MaxDecimals == 3

\* _get_power returning the number from the given power upwards
_get_power_with_higher_digits(number, power) == number \div (10 ^ power)

\* Number._get_power
_get_power(number, power) == (number \div (10 ^ power)) % 10

\* the value of digits after the first n rounds of the loop of _get_some_powers
RECURSIVE digits_after(_, _, _)
digits_after(number, smallest_power, n) ==
    IF n = 0 THEN 0
    ELSE digits_after(number, smallest_power, n - 1)
            + _get_power(number, smallest_power + (n - 1)) * (10 ^ (n - 1))

\* Number._get_some_powers
_get_some_powers(number, smallest_power, number_decimals) ==
    digits_after(number, smallest_power, number_decimals)

\* the numbers the helper is called with: a range from 0 and the numbers of
\* the unit tests
PowersNumbers == (0..MaxNumber) \cup {321444, 14732512}

PowersInit ==
    /\ ParserInit
    /\ MatcherIdle
    /\ PairIdle
    /\ RefeedIdle
    /\ ToolsIdle

\* one call of the helper
GetSomePowers ==
    \E number \in PowersNumbers, smallest_power \in 0..MaxPower,
       number_decimals \in 0..MaxDecimals :
        /\ ~powers.called
        /\ powers' = [called |-> TRUE,
                      number |-> number,
                      smallest_power |-> smallest_power,
                      number_decimals |-> number_decimals,
                      digits |-> _get_some_powers(number, smallest_power, number_decimals)]
        /\ UNCHANGED <<parser_vars, matcher_vars, pair_vars, refeed_vars>>
        /\ UNCHANGED <<config_vars, article, magazine>>

PowersNext == GetSomePowers

SpecPowers == PowersInit /\ [][PowersNext]_vars

----------------------------------------------------------------------------
(* mpf_extractor.py: Text and Magazine *)

\* is_article: a headline must be longer than this
MinHeadline == 2
\* is_article: the content must be longer than the headline by more than this
MinBody == 30
\* most pages parsed into one magazine
MaxPages == 3

\* re.sub(r'<.+?>', '', s): s without its tags; a tag runs from a "<" to the
\* first ">" that is at least two characters later on the same line
RECURSIVE remove_tags(_)
remove_tags(s) ==
    LET closing(i) == {j \in (i + 2)..Len(s) :
                          /\ s[j] = ">"
                          /\ \A k \in (i + 1)..(j - 1) : s[k] # "\n"}
        opening == {i \in 1..Len(s) : s[i] = "<" /\ closing(i) # {}}
    IN IF opening = {} THEN s
       ELSE LET i == CHOOSE a \in opening : \A o \in opening : a <= o
                j == CHOOSE b \in closing(i) : \A o \in closing(i) : b <= o
            IN SubSeq(s, 1, i - 1) \o remove_tags(SubSeq(s, j + 1, Len(s)))

\* re.sub(r'\s', '', s)
remove_whitespace(s) == SelectSeq(s, LAMBDA c : ~isspace(c))

\* Text.get_hash: the md5 digest, which stands for the text it is computed of
get_hash(self) == remove_whitespace(remove_tags(self._content))

\* Text.is_article
is_article(self) ==
    /\ self.has_headline
    /\ Len(self._headline) > MinHeadline
    /\ Len(self._content) - Len(self._headline) > MinBody

\* a Text whose page has a body with the headline in h1 and the given rest
TextOf(headline, rest) ==
    [ has_headline |-> TRUE,
      _headline |-> headline,
      _content |-> <<"<","h","1",">">> \o headline \o <<"<","/","h","1",">">> \o rest ]

\* a Text whose page has a body without a headline
TextWithoutHeadline(content) ==
    [ has_headline |-> FALSE, _headline |-> <<>>, _content |-> content ]

\* the texts behind the links of the pages: Text(text_link) for each link
Texts ==
    << TextOf(<<"A","b","c">>, Repeat("x", MinBody)),
       TextOf(<<"A","b","c">>, <<" ","<","p",">">> \o Repeat("x", MinBody) \o <<"\n">>),
       TextOf(<<"X","y","z">>, Repeat("y", MinBody)),
       TextOf(<<"A","b">>, Repeat("x", MinBody + 1)),
       TextOf(<<"A","b","c","d">>, <<"z","z","z">>),
       TextWithoutHeadline(Repeat("x", MinBody + MinHeadline + 1)),
       TextOf(<<"Q","r","s">>, Repeat("q", MinBody)) >>

\* the pages of the magazine: the links of each page, in the order of its lines
Pages == { <<1>>, <<1, 2>>, <<3, 4, 1>>, <<2, 3>>, <<5, 6, 7>>, <<7, 2, 1>> }

\* the body of the loop of _parse_page adding every proper article
parse_text_without_hash_test(self, a_text) ==
    IF is_article(a_text)
    THEN [self EXCEPT !._texts = Append(@, a_text),
                      !._text_hashes = @ \cup {get_hash(a_text)}]
    ELSE self

\* the body of the loop of _parse_page for one text link (lines 180-187)
parse_text(self, a_text) ==
    IF is_article(a_text)
    THEN IF get_hash(a_text) \notin self._text_hashes
         THEN [self EXCEPT !._texts = Append(@, a_text),
                           !._text_hashes = @ \cup {get_hash(a_text)}]
         ELSE self
    ELSE self

\* Magazine._parse_page over the first n links of the page; the loop ends
\* early when get_web_text raises for a link
RECURSIVE _parse_page(_, _, _)
_parse_page(self, links, n) ==
    IF n = 0 THEN self
    ELSE parse_text(_parse_page(self, links, n - 1), Texts[links[n]])

\* Magazine.__init__ before _parse_magazine has fetched a page
MagazineInit ==
    /\ ParserInit
    /\ MatcherIdle
    /\ PairIdle
    /\ RefeedIdle
    /\ ConfigIdle
    /\ ArticleIdle
    /\ PowersIdle
    /\ magazine = [_texts |-> <<>>, _text_hashes |-> {}, pages |-> <<>>]

\* _parse_magazine parses one more page, all of it or up to a failing link
ParsePage ==
    \E links \in Pages :
      \E n \in 0..Len(links) :
        /\ Len(magazine.pages) < MaxPages
        /\ magazine' =
              [_parse_page(magazine, links, n) EXCEPT
                  !.pages = Append(@, [links |-> links, parsed |-> n])]
        /\ UNCHANGED <<parser_vars, matcher_vars, pair_vars, refeed_vars>>
        /\ UNCHANGED <<config_vars, article, powers>>

MagazineNext == ParsePage

SpecMagazine == MagazineInit /\ [][MagazineNext]_vars

----------------------------------------------------------------------------
(* get_article_by_number *)

\* the members of the enum ArticleFormat
ArticleFormat == {"HTML", "PDF", "AUDIO", "AUDIO_OVER_HTML", "AUDIO_OVER_PDF"}

is_audio_preferred(article_format) ==
    article_format = "AUDIO_OVER_HTML" \/ article_format = "AUDIO_OVER_PDF"

\* get_secondary_format answering with the other text format
get_secondary_format_swapped(article_format) ==
    IF article_format = "AUDIO_OVER_HTML" THEN "PDF"
    ELSE IF article_format = "AUDIO_OVER_PDF" THEN "HTML"
    ELSE "ValueError"

\* get_secondary_format: the format, or "ValueError" where it raises
get_secondary_format(article_format) ==
    IF article_format = "AUDIO_OVER_HTML" THEN "HTML"
    ELSE IF article_format = "AUDIO_OVER_PDF" THEN "PDF"
    ELSE "ValueError"

\* what get_article_by_number returns: (returned, format), or the exception
Returns(returned, truthy, format) ==
    [returned |-> returned, truthy |-> truthy, format |-> format, raised |-> "none"]
Raises(exception) ==
    [returned |-> "nothing", truthy |-> FALSE, format |-> "None", raised |-> exception]

\* the part of get_article_by_number after the audio branch (lines 473-494)
other_formats(article_format, web) ==
    IF article_format = "PDF"
    THEN IF ~web.pdf_response
         THEN Returns("pdf_response", FALSE, "None")
         ELSE Returns("pdf_response.content", TRUE, "PDF")
    ELSE IF article_format = "HTML"
    THEN Returns("extract_article_from_html(article.text)", web.extracted, "HTML")
    ELSE Raises("NotImplementedError")

\* get_article_by_number(article_number, session, article_format), where web
\* says what the session and the page hold: whether each GET reply is truthy,
\* whether the page has an audio URL and whether the article is found in it
get_article_by_number(article_format, web) ==
    IF ~web.article
    THEN Returns("article", FALSE, "None")
    ELSE IF is_audio_preferred(article_format)
         THEN IF web.audio_url
              THEN IF ~web.audio_response
                   THEN Returns("audio_response", FALSE, "None")
                   ELSE Returns("audio_response.content", TRUE, "AUDIO")
              ELSE other_formats(get_secondary_format(article_format), web)
         ELSE other_formats(article_format, web)

\* what the session and the page may hold
Webs ==
    [article : BOOLEAN, audio_url : BOOLEAN, audio_response : BOOLEAN,
     pdf_response : BOOLEAN, extracted : BOOLEAN]

ArticleInit ==
    /\ ParserInit
    /\ MatcherIdle
    /\ PairIdle
    /\ RefeedIdle
    /\ ToolsIdle

\* one call of get_article_by_number
GetArticleByNumber ==
    \E article_format \in ArticleFormat, web \in Webs :
        /\ ~article.called
        /\ article' = [called |-> TRUE,
                       article_format |-> article_format,
                       web |-> web,
                       result |-> get_article_by_number(article_format, web)]
        /\ UNCHANGED <<parser_vars, matcher_vars, pair_vars, refeed_vars>>
        /\ UNCHANGED <<config_vars, powers, magazine>>

ArticleNext == GetArticleByNumber

SpecArticle == ArticleInit /\ [][ArticleNext]_vars

----------------------------------------------------------------------------
(* The known numbers in the configuration file *)

\* most entries of a numbers argument, and most writes of the file explored
MaxEntries == 2
MaxWrites == 2

DigitChars == <<"0","1","2","3","4","5","6","7","8","9">>
Digit == {DigitChars[d] : d \in 1..10}

\* str(n) of a non-negative and of any integer
RECURSIVE str_nat(_)
str_nat(n) ==
    IF n < 10 THEN <<DigitChars[n + 1]>>
    ELSE str_nat(n \div 10) \o <<DigitChars[(n % 10) + 1]>>
str_int(n) == IF n < 0 THEN <<"-">> \o str_nat(0 - n) ELSE str_nat(n)

\* the value of a string of decimal digits
RECURSIVE int_of_digits(_)
int_of_digits(s) ==
    IF s = <<>> THEN 0
    ELSE 10 * int_of_digits(SubSeq(s, 1, Len(s) - 1))
            + (CHOOSE d \in 0..9 : DigitChars[d + 1] = s[Len(s)])

\* str.isnumeric() of a string of ASCII characters
isnumeric(s) == s # <<>> /\ \A k \in 1..Len(s) : s[k] \in Digit

\* an entry of a numbers argument: an int or a str
IntEntry(n) == [is_int |-> TRUE, int |-> n, str |-> <<>>]
StrEntry(s) == [is_int |-> FALSE, int |-> 0, str |-> s]

\* int(num): the value, or ok = FALSE where int raises ValueError; a str may
\* have whitespace around it and a sign before its digits
int(num) ==
    IF num.is_int THEN [ok |-> TRUE, value |-> num.int]
    ELSE LET s == strip(num.str)
             signed == s # <<>> /\ s[1] \in {"-", "+"}
             digits == IF signed THEN Tail(s) ELSE s
         IN IF isnumeric(digits)
            THEN [ok |-> TRUE,
                  value |-> IF signed /\ s[1] = "-"
                            THEN 0 - int_of_digits(digits)
                            ELSE int_of_digits(digits)]
            ELSE [ok |-> FALSE, value |-> 0]

\* s.split(sep) for a separator of one character
RECURSIVE split(_, _)
split(s, sep) ==
    LET seps == {k \in 1..Len(s) : s[k] = sep} IN
    IF seps = {} THEN <<s>>
    ELSE LET k == CHOOSE n \in seps : \A o \in seps : n <= o
         IN <<SubSeq(s, 1, k - 1)>> \o split(SubSeq(s, k + 1, Len(s)), sep)

\* read_known_numbers_from_config on a file that exists: the set of numbers,
\* or the ValueError for a file without the section
read_known_numbers_from_config(file) ==
    IF ~file.section THEN [raised |-> "ValueError", values |-> {}]
    ELSE IF ~file.key THEN [raised |-> "none", values |-> {}]
    ELSE LET values_strings == split(remove_whitespace(file.value), ",")
         IN [raised |-> "none",
             values |-> {int_of_digits(values_strings[k]) :
                            k \in {n \in 1..Len(values_strings) :
                                       isnumeric(values_strings[n])}}]

\* sorted(s) of a set of integers
RECURSIVE sorted(_)
sorted(s) ==
    IF s = {} THEN <<>>
    ELSE LET least == CHOOSE n \in s : \A o \in s : n <= o
         IN <<least>> \o sorted(s \ {least})

\* the loop of lines 388-393: values_one_string after the given numbers, with
\* nrs_in_line numbers in the current line before them
RECURSIVE values_one_string(_, _, _)
values_one_string(nums, nrs_in_line, break_after) ==
    IF nums = <<>> THEN <<>>
    ELSE IF break_after # 0 /\ nrs_in_line = break_after
         THEN <<"\n", " ">> \o str_int(nums[1]) \o <<",">>
                  \o values_one_string(Tail(nums), 1, break_after)
         ELSE <<" ">> \o str_int(nums[1]) \o <<",">>
                  \o values_one_string(Tail(nums), nrs_in_line + 1, break_after)

\* the value as configparser hands it back after c.write and c.read: the
\* lines of the value without the whitespace around them
RECURSIVE stored_lines(_)
stored_lines(file_lines) ==
    IF Len(file_lines) = 1 THEN strip(file_lines[1])
    ELSE strip(file_lines[1]) \o <<"\n">> \o stored_lines(Tail(file_lines))

\* append_write_known_numbers_to_config(filename, sectionname, keyname,
\* numbers, break_after): the file afterwards, whether it was written, and the
\* ValueError of the read for a file without the section
append_write_known_numbers_to_config(file, nums, break_after) ==
    LET new_numbers == {int(nums[k]).value : k \in {n \in 1..Len(nums) : int(nums[n]).ok}}
        current == read_known_numbers_from_config(file)
        numbers_to_write == current.values \cup new_numbers
    IN IF current.raised # "none"
       THEN [file |-> file, wrote |-> FALSE, raised |-> current.raised]
       ELSE IF current.values = numbers_to_write
       THEN [file |-> file, wrote |-> FALSE, raised |-> "none"]
       ELSE [file |-> [file EXCEPT
                          !.key = TRUE,
                          !.value = stored_lines(split_lines(strip(
                              values_one_string(sorted(numbers_to_write), 0, break_after))))],
             wrote |-> TRUE,
             raised |-> "none"]

\* a configuration file: has it the section, has the section the key, and the
\* value under the key
ConfigFile(section, key, value) == [section |-> section, key |-> key, value |-> value]

\* the configuration files the calls start from
ConfigFiles ==
    { ConfigFile(FALSE, FALSE, <<>>),
      ConfigFile(TRUE, FALSE, <<>>),
      ConfigFile(TRUE, TRUE, <<>>),
      ConfigFile(TRUE, TRUE, <<"1", ",">>),
      ConfigFile(TRUE, TRUE, <<"1", ",", " ", "3">>),
      ConfigFile(TRUE, TRUE, <<"2", ",", "x", ",", "\n", "0", "3", ",">>) }

\* the entries of the numbers arguments
Entries ==
    { IntEntry(1), IntEntry(2), IntEntry(0 - 1), IntEntry(12),
      StrEntry(<<"3">>), StrEntry(<<" ", "2", "\n">>), StrEntry(<<"x">>) }

\* the numbers arguments: the lists of at most MaxEntries entries
NumbersArguments == UNION {[1..n -> Entries] : n \in 0..MaxEntries}

\* the break_after arguments: none, a short line, and the default
BreakAfterArguments == {0, 2, 10}

ConfigInit ==
    /\ ParserInit
    /\ MatcherIdle
    /\ PairIdle
    /\ RefeedIdle
    /\ ArticleIdle
    /\ PowersIdle
    /\ MagazineIdle
    /\ config_file \in ConfigFiles
    /\ written = 0
    /\ numbers = <<>>
    /\ identifiers_to_get = {}
    /\ session_latest_article = <<>>

\* one call of append_write_known_numbers_to_config
AppendWrite ==
    \E nums \in NumbersArguments, break_after \in BreakAfterArguments :
        /\ written < MaxWrites
        /\ raised = "none"
        /\ LET after_call ==
                   append_write_known_numbers_to_config(config_file, nums, break_after)
           IN /\ config_file' = after_call.file
              /\ written' = IF after_call.wrote THEN written + 1 ELSE written
              /\ raised' = after_call.raised
        /\ numbers' = nums
        /\ op' = "append_write_known_numbers_to_config"
        /\ UNCHANGED <<ignore_stack, text, warnings, fed, was_empty, ret, calls>>
        /\ UNCHANGED <<identifiers_to_get, session_latest_article>>
        /\ UNCHANGED <<matcher_vars, pair_vars, refeed_vars, article, powers, magazine>>

ConfigNext == AppendWrite

SpecConfig == ConfigInit /\ [][ConfigNext]_vars

----------------------------------------------------------------------------
(* The commands among the identifiers of a run *)

\* greatest article number a login reports or a range names
MaxLatest == 4

\* the pairs log_in returns: (None, None), (session, None) and
\* (session, latest_article); None is the empty set, a number its singleton
LogInResults ==
    {<<FALSE, {}>>, <<TRUE, {}>>} \cup {<<TRUE, {latest}>> : latest \in 1..MaxLatest}

\* the login of lines 885-887 and 895-897: log_in is called when no latest
\* article is stored; this is what may be stored afterwards
after_log_in(stored) == IF stored[2] = {} THEN LogInResults ELSE {stored}

\* any(el is None for el in session_latest_article)
any_is_None(stored) == ~stored[1] \/ stored[2] = {}

\* session_latest_article[1] of a pair holding a number
latest_article(stored) == CHOOSE latest \in stored[2] : TRUE

\* range(begin, end)
range(begin, end) == begin..(end - 1)

Max(a, b) == IF a >= b THEN a ELSE b
Min(a, b) == IF a <= b THEN a ELSE b

MainInit ==
    /\ ParserInit
    /\ MatcherIdle
    /\ PairIdle
    /\ RefeedIdle
    /\ ArticleIdle
    /\ PowersIdle
    /\ MagazineIdle
    /\ config_file \in ConfigFiles
    /\ written = 0
    /\ numbers = <<>>
    /\ identifiers_to_get = {}
    /\ session_latest_article = <<FALSE, {}>>

\* what a command leaves alone
CommandFrame ==
    /\ UNCHANGED <<ignore_stack, text, warnings, fed, was_empty, raised, ret, calls>>
    /\ UNCHANGED <<config_file, written, numbers>>
    /\ UNCHANGED <<matcher_vars, pair_vars, refeed_vars, article, powers, magazine>>

\* an identifier <numA>-<numB>
CommandRange ==
    \E numberA \in 0..MaxLatest, numberB \in 0..MaxLatest :
        LET number_begin == Max(Min(numberA, numberB), 1)
            number_end == Max(Max(numberA, numberB), 1)
        IN /\ identifiers_to_get' =
                  identifiers_to_get \cup range(number_begin, number_end + 1)
           /\ op' = "range"
           /\ UNCHANGED session_latest_article
           /\ CommandFrame

\* the identifier latest
CommandLatest ==
    \E stored \in after_log_in(session_latest_article) :
        /\ session_latest_article' = stored
        /\ identifiers_to_get' =
               IF any_is_None(stored) THEN identifiers_to_get
               ELSE identifiers_to_get \cup {latest_article(stored)}
        /\ op' = "latest"
        /\ CommandFrame

\* the to_get of the command unknown: the numbers below the latest article
to_get_unknown(latest) == range(1, latest)

\* the identifier unknown; a ValueError of the read leaves to_get whole
CommandUnknown ==
    \E stored \in after_log_in(session_latest_article) :
        /\ session_latest_article' = stored
        /\ identifiers_to_get' =
               IF any_is_None(stored) THEN identifiers_to_get
               ELSE LET known == read_known_numbers_from_config(config_file)
                        to_get == to_get_unknown(latest_article(stored))
                    IN identifiers_to_get \cup
                          (IF known.raised = "none" THEN to_get \ known.values
                           ELSE to_get)
        /\ op' = "unknown"
        /\ CommandFrame

MainNext == CommandRange \/ CommandLatest \/ CommandUnknown

SpecMain == MainInit /\ [][MainNext]_vars

----------------------------------------------------------------------------
(* Vocabulary of the properties *)

Emitting == ignore_stack = <<>>
Suppressing == ignore_stack # <<>>

\* the stack was empty after the first i tokens
EmittingAfter(i) == IF i = Len(fed) THEN Emitting ELSE was_empty[i + 1]

\* token j is a start tag that matched an ignore rule while Emitting
OpensRegion(j) ==
    /\ fed[j].kind = "start"
    /\ was_empty[j]
    /\ \E i \in 1..Len(IGNORE_LIST) : match(IGNORE_LIST[i], fed[j].tag, fed[j].attrs)

IsEndOf(j, i) == fed[i].kind = "end" /\ fed[i].tag = fed[j].tag

\* no end tag with the name of token j among the tokens j+1 .. i
NoEndOf(j, i) == \A k \in (j + 1)..i : ~IsEndOf(j, k)

EndsWith(s, suffix) ==
    /\ Len(s) >= Len(suffix)
    /\ SubSeq(s, Len(s) - Len(suffix) + 1, Len(s)) = suffix

\* the last token was handled and then get_text() was called
Returned(value) == op = "get_text" => ret = value

----------------------------------------------------------------------------
(* C1: feeding a fresh filter <span class="info">a</p>b</span>after makes
   get_text() return exactly "after": "a" and "b" are not emitted, the inner
   </p> inserts no double newline, and the filter is Emitting after </span>. *)
C1_StrayEndTagInIgnoredSpan ==
    fed = Example4 => text = after /\ Emitting /\ Returned(after)

----------------------------------------------------------------------------
(* C2 *)

\* f consists of well-formed <p>text</p> pairs only
IsParagraphDoc(f) ==
    /\ Len(f) % 3 = 0
    /\ \A i \in 1..Len(f) :
         CASE i % 3 = 1 -> f[i].kind = "start" /\ f[i].tag = P
           [] i % 3 = 2 -> f[i].kind = "data"
           [] OTHER -> f[i].kind = "end" /\ f[i].tag = P

\* the trimmed text nodes of a paragraph document, in order
TextNodes(f) == [k \in 1..(Len(f) \div 3) |-> strip(f[3 * k - 1].data)]

RECURSIVE JoinedBy(_, _)
JoinedBy(nodes, sep) ==
    IF nodes = <<>> THEN <<>>
    ELSE IF Len(nodes) = 1 THEN nodes[1]
    ELSE nodes[1] \o sep \o JoinedBy(Tail(nodes), sep)

RECURSIVE EachFollowedBy(_, _)
EachFollowedBy(nodes, sep) ==
    IF nodes = <<>> THEN <<>>
    ELSE nodes[1] \o sep \o EachFollowedBy(Tail(nodes), sep)

(* C2 as stated: for every input of well-formed <p>text</p> pairs only,
   get_text() is the trimmed text nodes joined by one double newline between
   consecutive paragraphs, with nothing after the last one. *)
C2_JoinedWithoutTrailingNewlines ==
    IsParagraphDoc(fed) => text = JoinedBy(TextNodes(fed), nn)

(* C2 as amended: for every input of well-formed <p>text</p> pairs only,
   get_text() is the trimmed text nodes, each followed by one double newline
   (the one its </p> appends), with nothing before the first text. *)
C2_EachParagraphFollowedByDoubleNewline ==
    IsParagraphDoc(fed) =>
        /\ text = EachFollowedBy(TextNodes(fed), nn)
        /\ Returned(EachFollowedBy(TextNodes(fed), nn))

C2_Witness ==
    /\ fed = Example1
    /\ op = "get_text"
    /\ ret = Hello \o nn \o World \o nn

----------------------------------------------------------------------------
(* C3 as stated: feeding a fresh filter <span class="info">x</span>text<p>more</p>
   makes get_text() return exactly "text\n\nmore". *)
C3_TextThenDoubleNewlineThenMore ==
    fed = Example3 => text = <<"t","e","x","t">> \o nn \o more

(* C3 as amended: feeding a fresh filter <span class="info">x</span>text<p>more</p>
   makes get_text() return exactly "text more\n\n": the ignored span contributes
   nothing, the text before the paragraph is separated from the paragraph text
   by one space, and the double newline follows the paragraph at its </p>. *)
C3_TextSpaceMoreThenDoubleNewline ==
    fed = Example3 =>
        /\ text = <<"t","e","x","t"," ">> \o more \o nn
        /\ Emitting
        /\ Returned(<<"t","e","x","t"," ">> \o more \o nn)

C3_Witness == fed = Example3 /\ op = "get_text" /\ Len(ret) = 11

----------------------------------------------------------------------------
(* C4 *)

\* the tokens fed so far end inside an ignored region: after a start tag that
\* matched an ignore rule while Emitting, before any end tag of that name
InIgnoredRegion ==
    \E j \in 1..Len(fed) : OpensRegion(j) /\ NoEndOf(j, Len(fed))

(* C4: the suppression stack never becomes empty inside an ignored region
   (from a start tag that matched an ignore rule while Emitting up to the first
   later end tag with that name), and a text token that arrives there leaves
   the text get_text() returns unchanged, whatever tokens came in between. *)
C4_TextInIgnoredRegionIsDropped ==
    /\ [](InIgnoredRegion => Suppressing)
    /\ [][(InIgnoredRegion /\ op' = "data" /\ fed' # fed) =>
              (text' = text /\ Suppressing')]_vars

C4_Witness ==
    /\ Len(fed) = 4
    /\ OpensRegion(1)
    /\ fed[2].kind = "start"
    /\ fed[3].kind = "end" /\ fed[3].tag # fed[2].tag /\ fed[3].tag # fed[1].tag
    /\ fed[4].kind = "data" /\ strip(fed[4].data) # <<>>
    /\ text = <<>>

----------------------------------------------------------------------------
(* C5 *)

\* content is well formed: every start tag that is not a void tag is closed by
\* its own end tag in nested order (open: the tags still to be closed); text,
\* void start tags and end tags of void tags may stand anywhere
RECURSIVE Balanced(_, _)
Balanced(content, open) ==
    IF content = <<>> THEN open = <<>>
    ELSE LET tok == Head(content) IN
         CASE tok.kind = "data" -> Balanced(Tail(content), open)
           [] tok.kind = "start" ->
                IF tok.tag \in NEVER_CLOSED_TAGS
                THEN Balanced(Tail(content), open)
                ELSE Balanced(Tail(content), Append(open, tok.tag))
           [] OTHER ->
                IF tok.tag \in NEVER_CLOSED_TAGS
                THEN Balanced(Tail(content), open)
                ELSE /\ open # <<>>
                     /\ open[Len(open)] = tok.tag
                     /\ Balanced(Tail(content), SubSeq(open, 1, Len(open) - 1))

\* tokens j and i open and close an ignored region with well-formed content
WellFormedRegionAt(j, i) ==
    /\ j < i
    /\ OpensRegion(j)
    /\ IsEndOf(j, i)
    /\ Balanced(SubSeq(fed, j + 1, i - 1), <<>>)

(* C5: for every ignored region with well-formed content, the suppression stack
   is empty right after the end tag that closes the region's opening tag and at
   no point before it, and a text token that comes next is appended to the
   output. *)
C5_WellFormedRegionEndsSuppression ==
    \A j \in 1..Len(fed), i \in 1..Len(fed) :
        WellFormedRegionAt(j, i) =>
            /\ EmittingAfter(i)
            /\ \A k \in j..(i - 1) : ~EmittingAfter(k)
            /\ (Len(fed) = i + 1 /\ fed[i + 1].kind = "data") =>
                   /\ Emitting
                   /\ EndsWith(text, strip(fed[i + 1].data))
                   /\ Len(text) >= Len(strip(fed[i + 1].data))

C5_Witness == fed = Example2 /\ text = Remaining_text

----------------------------------------------------------------------------
(* C6: when an ignored region opened by tag T contains a start tag img that is
   immediately followed by an end tag for a different tag, the filter is
   Emitting again right after the first end tag of T that follows, and a text
   token after that end tag appears in the output. *)
C6_UnclosedImgNeverSticks ==
    \A j \in 1..Len(fed), k \in 1..Len(fed), i \in 1..Len(fed) :
        (/\ j < k /\ k < i
         /\ OpensRegion(j)
         /\ NoEndOf(j, k)
         /\ fed[k].kind = "start" /\ fed[k].tag = IMG
         /\ fed[k + 1].kind = "end" /\ fed[k + 1].tag # IMG
         /\ IsEndOf(j, i)
         /\ NoEndOf(j, i - 1))
        => /\ EmittingAfter(i)
           /\ (Len(fed) = i + 1 /\ fed[i + 1].kind = "data") =>
                  EndsWith(text, strip(fed[i + 1].data))

----------------------------------------------------------------------------
(* C7 *)

\* an open frame or a recovery frame (anti-tag) for a void tag
IsVoidFrame(frame) ==
    \/ frame \in NEVER_CLOSED_TAGS
    \/ \E tag \in NEVER_CLOSED_TAGS : frame = ANTI_TAG_PREFIX \o tag

\* this step dispatches a start or end tag with a void tag name
VoidTagStep ==
    /\ fed' # fed
    /\ fed'[Len(fed')].kind \in {"start", "end"}
    /\ fed'[Len(fed')].tag \in NEVER_CLOSED_TAGS

(* C7: a start or end tag with a void tag name (br, input) that arrives while
   Suppressing leaves the suppression stack unchanged; no frame of the stack
   ever carries a void tag name; and <span class="info">a<br>b</span> and
   <span class="info">ab</span> both end with an empty stack and empty output. *)
C7_VoidTagsNeverOnStack ==
    /\ [](\A n \in 1..Len(ignore_stack) : ~IsVoidFrame(ignore_stack[n]))
    /\ [][(Suppressing /\ VoidTagStep) => ignore_stack' = ignore_stack]_vars
    /\ [](fed \in {VoidInside, NoVoidInside} => Emitting /\ text = <<>>)

C7_Witness ==
    /\ fed = VoidInside
    /\ Emitting
    /\ text = <<>>

----------------------------------------------------------------------------
(* C8 *)

\* the (name, value) pair is among attrs
HasAttribute(attrs, pair) == \E n \in 1..Len(attrs) : attrs[n] = pair

(* C8 as stated: match(tag, attrs) returns true exactly when the tag name equals
   the matcher's tag name and every required pair is in attrs. *)
C8_MatchIffSameNameAndSuperset ==
    m_arg # <<>> =>
        (m_ret <=> /\ m_arg[1] = m_tag
                   /\ \A pair \in m_attributes : HasAttribute(m_arg[2], pair))

(* C8 as amended: match(tag, attrs) returns true exactly when the tag name with
   leading and trailing whitespace removed equals the matcher's tag name (kept
   stripped) and every required pair is in attrs; extra attributes never
   prevent a match, a missing or differently valued required attribute always
   does, and the call does not modify the matcher. *)
C8_MatchIffStrippedNameAndSuperset ==
    /\ [](m_arg # <<>> =>
            (m_ret <=> /\ strip(m_arg[1]) = m_tag
                       /\ \A pair \in m_attributes : HasAttribute(m_arg[2], pair)))
    /\ [][m_tag' = m_tag /\ m_attributes' = m_attributes]_vars

C8_Witness ==
    /\ m_arg # <<>>
    /\ m_ret
    /\ m_arg[1] # m_tag
    /\ m_attributes # {}
    /\ to_set(m_arg[2]) # m_attributes

----------------------------------------------------------------------------
(* C9: get_text() can be called at any point between tokens; it returns the
   text accumulated so far, changes neither the output accumulator nor the
   suppression stack, and a second call with no token in between returns the
   same string. *)
C9_GetTextIsAPureRead ==
    /\ [](raised = "none" => ENABLED GetText)
    /\ [][fed' = fed =>
              /\ op' = "get_text"
              /\ ret' = text
              /\ text' = text
              /\ ignore_stack' = ignore_stack
              /\ (op = "get_text" => ret' = ret)]_vars

C9_Witness ==
    /\ op = "get_text"
    /\ Suppressing
    /\ ret # <<>>
    /\ EndsWith(ret, nn)

----------------------------------------------------------------------------
(* C10: for every sequence of start-tag, end-tag and text tokens, each token is
   processed without raising, and get_text() still returns the accumulated
   text afterwards. *)
C10_NoTokenRaises ==
    /\ raised = "none"
    /\ Returned(text)

----------------------------------------------------------------------------
(* C11: constructing a malformed configuration entry, such as a TagMatcher with
   an empty tag name, is rejected with an error at construction time, so no
   matcher with an empty tag name ever exists to be matched against a tag. *)
C11_MalformedEntryIsRejected ==
    m_tag = <<>> => raised # "none"

----------------------------------------------------------------------------
(* C12 *)

\* a frame pushed for a stray end tag (an anti-tag)
IsRecoveryFrame(frame) == startswith(frame, ANTI_TAG_PREFIX)

\* at least one RecoveryFrame is on the stack
RecoveryFrameLeft ==
    \E n \in 1..Len(ignore_stack) : IsRecoveryFrame(ignore_stack[n])

\* this step dispatches an end tag
EndTagStep == fed' # fed /\ fed'[Len(fed')].kind = "end"

(* C12: every end tag that arrives while Suppressing, equals neither the top
   frame nor a void tag, and finds a top frame that is not a sometimes-unclosed
   tag pushes exactly one RecoveryFrame for its name and records one warning
   without raising; so whenever a RecoveryFrame is on the stack a warning has
   been recorded, and once feed has returned get_text() still returns the
   text. *)
C12_StrayEndTagPushesRecoveryFrameAndWarns ==
    /\ [][(/\ EndTagStep
           /\ Suppressing
           /\ top(ignore_stack) # fed'[Len(fed')].tag
           /\ fed'[Len(fed')].tag \notin NEVER_CLOSED_TAGS
           /\ top(ignore_stack) \notin SOMETIMES_NOT_CLOSED_TAGS)
          => /\ ignore_stack' =
                    Append(ignore_stack, ANTI_TAG_PREFIX \o fed'[Len(fed')].tag)
             /\ warnings' = warnings + 1
             /\ raised' = "none"
             /\ text' = text]_vars
    /\ [](RecoveryFrameLeft => warnings >= 1)
    /\ []((RecoveryFrameLeft /\ raised = "none") =>
              (ENABLED GetText /\ Returned(text)))

C12_Witness ==
    /\ RecoveryFrameLeft
    /\ warnings = 1
    /\ op = "get_text"
    /\ ret # <<>>

----------------------------------------------------------------------------
(* C13: two filter instances share no mutable state: in every interleaving of
   the token handling of two instances fed different fragments, each instance
   has at every point, and so at its end, the stack and the output it has when
   it processes its fragment alone, and no token modifies the ignore-rule,
   void-tag and sometimes-unclosed tables. *)
C13_InstancesShareNoMutableState ==
    /\ [](\A i \in DOMAIN parsers :
            LET alone == fed_alone(parsers[i].fragment, parsers[i].pos) IN
            /\ parsers[i].stack = alone.stack
            /\ parsers[i].text = alone.text
            /\ parsers[i].raised = alone.raised)
    /\ [](class_attrs = ClassAttributes)
    /\ [][class_attrs' = class_attrs]_vars

C13_Witness ==
    /\ parsers # <<>>
    /\ \A i \in DOMAIN parsers : parsers[i].pos = Len(parsers[i].fragment)
    /\ parsers[1].fragment = Example4
    /\ parsers[1].stack # <<>>
    /\ parsers[1].text = <<>>
    /\ parsers[2].fragment = Example1
    /\ parsers[2].stack = <<>>
    /\ parsers[2].text = Hello \o nn \o World \o nn

----------------------------------------------------------------------------
(* C14 *)

\* the words of s: its maximal runs of non-whitespace characters, in order
RECURSIVE Words(_)
Words(s) ==
    LET t == lstrip(s)
        spaces == {k \in 1..Len(t) : isspace(t[k])}
        end == IF spaces = {} THEN Len(t) + 1
               ELSE CHOOSE n \in spaces : \A o \in spaces : n <= o
    IN IF t = <<>> THEN <<>>
       ELSE <<SubSeq(t, 1, end - 1)>> \o Words(SubSeq(t, end, Len(t)))

\* the lines fed so far, trimmed, without those that are empty after trimming
TrimmedLinesFed ==
    SelectSeq([k \in 1..Len(fed) |-> strip(fed[k].data)], LAMBDA line : line # <<>>)

(* C14: feeding each line of an output of the filter as one text token, in
   order, to a fresh Emitting filter yields the trimmed non-empty lines joined
   by exactly one space each; the result contains no newline, and once all
   lines are fed it has the same sequence of words as the output. *)
C14_RefeedingLinesKeepsTheWords ==
    /\ Emitting
    /\ text = JoinedBy(TrimmedLinesFed, <<" ">>)
    /\ \A k \in 1..Len(text) : text[k] # "\n"
    /\ lines = <<>> => Words(text) = Words(produced)

C14_Witness ==
    /\ lines = <<>>
    /\ \E k \in 1..Len(produced) : produced[k] = "\n"
    /\ Len(Words(produced)) = 5
    /\ Words(text) = Words(produced)
    /\ text # produced

----------------------------------------------------------------------------
(* C15 *)

\* this step dispatches a start tag
StartTagStep == fed' # fed /\ fed'[Len(fed')].kind = "start"

(* C15: for every non-void tag name the tokenizer can deliver (p, div, h1),
   when the top frame is the RecoveryFrame of that name, the next start tag
   with the same name pops exactly that frame and pushes nothing; a start tag
   with any other name never pops a RecoveryFrame. *)
C15_SameNameStartTagPopsRecoveryFrame ==
    [][(/\ StartTagStep
        /\ Suppressing
        /\ IsRecoveryFrame(top(ignore_stack)))
       => IF /\ top(ignore_stack) = ANTI_TAG_PREFIX \o fed'[Len(fed')].tag
             /\ fed'[Len(fed')].tag \notin NEVER_CLOSED_TAGS
          THEN ignore_stack' = pop(ignore_stack)
          ELSE /\ Len(ignore_stack') >= Len(ignore_stack)
               /\ SubSeq(ignore_stack', 1, Len(ignore_stack)) = ignore_stack]_vars

----------------------------------------------------------------------------
(* C16 *)

\* the stack without the open sometimes-unclosed frames (img) on its top
RECURSIVE WithoutUnclosedOnTop(_)
WithoutUnclosedOnTop(stack) ==
    IF stack # <<>> /\ top(stack) \in SOMETIMES_NOT_CLOSED_TAGS
    THEN WithoutUnclosedOnTop(pop(stack))
    ELSE stack

(* C16: when a non-void end tag arrives while Suppressing and the top frame is
   an open sometimes-unclosed tag (img) with a different name, all consecutive
   open img frames on top are removed, after which the end tag either pops a
   matching open frame or pushes one RecoveryFrame; the frames below are
   unchanged. *)
C16_EndTagSkipsUnclosedFrames ==
    [][(/\ EndTagStep
        /\ Suppressing
        /\ fed'[Len(fed')].tag \notin NEVER_CLOSED_TAGS
        /\ top(ignore_stack) \in SOMETIMES_NOT_CLOSED_TAGS
        /\ top(ignore_stack) # fed'[Len(fed')].tag)
       => LET below == WithoutUnclosedOnTop(ignore_stack) IN
          ignore_stack' =
              IF below # <<>> /\ top(below) = fed'[Len(fed')].tag
              THEN pop(below)
              ELSE Append(below, ANTI_TAG_PREFIX \o fed'[Len(fed')].tag)]_vars

----------------------------------------------------------------------------
(* C17: handling one end tag always terminates: it returns after at most as
   many speculative-pop retries as the stack was deep when the end tag
   arrived, each retry having removed one frame, so that feed goes on to the
   next token and a finite token sequence is processed to its end. *)
C17_EndTagHandlingTerminates ==
    [][EndTagStep =>
          /\ raised' = "none"
          /\ calls' >= 1
          /\ calls' - 1 <= Len(ignore_stack)
          /\ Len(ignore_stack') >= Len(ignore_stack) - calls']_vars

----------------------------------------------------------------------------
(* C18: no token that arrives while the suppression stack is non-empty changes
   the output accumulator: text is discarded, a start tag appends nothing, and
   an end tag appends no double newline, not even a paragraph-closing one and
   not even one handled again after speculative pops of img frames. *)
C18_NoOutputWhileSuppressing ==
    [][(fed' # fed /\ Suppressing) => text' = text]_vars

C18_Witness ==
    /\ Len(fed) = 4
    /\ fed[1].kind = "data"
    /\ OpensRegion(2)
    /\ fed[3] = StartTok(IMG, <<>>)
    /\ fed[4] = EndTok(P)
    /\ ignore_stack = <<SPAN, ANTI_TAG_PREFIX \o P>>
    /\ text = <<"a">>

----------------------------------------------------------------------------
(* C19 *)

\* the tag with these attributes is one the ignore rules name: cite, figure,
\* span class=info, q class=quote, div class=script
NamedByIgnoreRule(tag, attrs) ==
    \/ tag \in {CITE, FIGURE}
    \/ tag = SPAN /\ HasAttribute(attrs, class_info)
    \/ tag = Q /\ HasAttribute(attrs, class_quote)
    \/ tag = DIV /\ HasAttribute(attrs, class_script)

(* C19: while Emitting, a start tag that matches no ignore rule (a void tag or
   a tag whose attributes match a rule only partly included) and an end tag
   that is not paragraph-closing leave the suppression stack and the output
   accumulator unchanged; a start tag that matches an ignore rule pushes
   exactly one open frame, its name, and leaves the accumulator unchanged. *)
C19_TagsWhileEmitting ==
    [][(fed' # fed /\ Emitting) =>
          LET tok == fed'[Len(fed')] IN
          /\ (tok.kind = "start" /\ ~NamedByIgnoreRule(tok.tag, tok.attrs)) =>
                 (ignore_stack' = ignore_stack /\ text' = text)
          /\ (tok.kind = "end" /\ tok.tag \notin CLOSING_TAG_ENDLINE_LIST) =>
                 (ignore_stack' = ignore_stack /\ text' = text)
          /\ (tok.kind = "start" /\ NamedByIgnoreRule(tok.tag, tok.attrs)) =>
                 (ignore_stack' = <<tok.tag>> /\ text' = text)]_vars

C19_Witness ==
    /\ fed = PartlyMatching
    /\ \A k \in 1..Len(fed) : was_empty[k]
    /\ ignore_stack = <<DIV>>
    /\ text = <<"a">>

----------------------------------------------------------------------------
(* C20 *)

\* s from its first to its last character that is not whitespace
Trimmed(s) ==
    LET inked == {k \in 1..Len(s) : s[k] \notin Whitespace} IN
    IF inked = {} THEN <<>>
    ELSE SubSeq(s, CHOOSE a \in inked : \A k \in inked : a <= k,
                   CHOOSE b \in inked : \A k \in inked : b >= k)

(* C20: for a text token handled while Emitting: if the token is empty after
   trimming, the accumulator is unchanged; otherwise the accumulator becomes
   old + separator + trimmed token, where the separator is exactly one space if
   the old accumulator is non-empty and its last character is not whitespace,
   and is empty otherwise. *)
C20_TextTokenWhileEmitting ==
    [][(fed' # fed /\ Emitting /\ fed'[Len(fed')].kind = "data") =>
          LET trimmed == Trimmed(fed'[Len(fed')].data)
              separator == IF text # <<>> /\ text[Len(text)] \notin Whitespace
                           THEN <<" ">>
                           ELSE <<>>
          IN IF trimmed = <<>>
             THEN text' = text
             ELSE text' = text \o separator \o trimmed]_vars

C20_Witness ==
    /\ Len(fed) = 4
    /\ \A k \in 1..4 : was_empty[k]
    /\ fed[1] = DataTok(<<"a">>)
    /\ fed[2] = DataTok(<<" ", "b", "\n">>)
    /\ fed[3] = EndTok(P)
    /\ fed[4] = DataTok(<<" ", "b", "\n">>)
    /\ text = <<"a", " ", "b", "\n", "\n", "b">>

----------------------------------------------------------------------------
(* C21 *)

\* this step handles a text token and puts a character between the old text
\* and the trimmed token
SeparatorInserted ==
    /\ fed' # fed
    /\ fed'[Len(fed')].kind = "data"
    /\ Len(text') = Len(text) + Len(Trimmed(fed'[Len(fed')].data)) + 1

(* C21: in every reachable state the output accumulator is empty, or ends with
   the double newline of a paragraph close, or ends with a non-whitespace
   character; and a separating space the filter inserts stands between two
   non-whitespace characters, so never next to another inserted space or to an
   inserted newline. *)
C21_NoDanglingWhitespace ==
    /\ [](\/ text = <<>>
          \/ EndsWith(text, nn)
          \/ text[Len(text)] \notin Whitespace)
    /\ [][SeparatorInserted =>
              /\ text # <<>>
              /\ text[Len(text)] \notin Whitespace
              /\ text'[Len(text) + 1] = " "
              /\ text'[Len(text) + 2] \notin Whitespace]_vars

C21_Witness ==
    /\ Len(fed) = 4
    /\ text = <<"a", " ", "b", "\n", "\n", "a">>
    /\ fed[4].kind = "data"

----------------------------------------------------------------------------
(* C22 *)

\* the number of frames, counted from the bottom, that s and t have in common
CommonBottom(s, t) ==
    LET same == {k \in 0..Len(s) :
                    k <= Len(t) /\ SubSeq(s, 1, k) = SubSeq(t, 1, k)}
    IN CHOOSE k \in same : \A o \in same : k >= o

(* C22: every token changes the suppression stack only at its top: the stack
   after a token is the stack before it with zero or more top frames removed
   and then at most one frame pushed; the frames below the removed ones are
   the same frames in the same order. *)
C22_StackChangesAtTopOnly ==
    [][fed' # fed =>
          Len(ignore_stack') <= CommonBottom(ignore_stack, ignore_stack') + 1]_vars

C22_Witness ==
    /\ Len(fed) = 4
    /\ fed[4].kind = "end"
    /\ calls = 2
    /\ ~was_empty[4]
    /\ Len(ignore_stack) = 2
    /\ IsRecoveryFrame(top(ignore_stack))

----------------------------------------------------------------------------
(* C23 *)

\* this step removes the frame at position n of the stack, or one beneath it
RemovedAtOrBeneath(n) == Len(ignore_stack') < n \/ ignore_stack'[n] # ignore_stack[n]

(* C23: a RecoveryFrame is removed only by a start tag of the same name that
   arrives while the frame is on top; no end tag removes a RecoveryFrame or a
   frame beneath one; so while that start tag does not arrive the frame stays
   and the filter stays Suppressing, discarding all text. *)
C23_RecoveryFrameStaysUntilItsStartTag ==
    [][\A n \in 1..Len(ignore_stack) :
          (IsRecoveryFrame(ignore_stack[n]) /\ fed' # fed) =>
              /\ RemovedAtOrBeneath(n) =>
                     /\ fed'[Len(fed')].kind = "start"
                     /\ n = Len(ignore_stack)
                     /\ ignore_stack[n] = ANTI_TAG_PREFIX \o fed'[Len(fed')].tag
                     /\ ignore_stack' = pop(ignore_stack)
              /\ ~RemovedAtOrBeneath(n) => (Suppressing' /\ text' = text)]_vars

----------------------------------------------------------------------------
(* C24: in every reachable state with a non-empty suppression stack the bottom
   frame is an open frame with the tag name of an ignore rule (span, cite, q,
   figure, div), never a RecoveryFrame and never a sometimes-unclosed or void
   tag; so a speculative pop never empties the stack. *)
C24_BottomFrameIsAnIgnoredTag ==
    Suppressing =>
        /\ ignore_stack[1] \in {SPAN, CITE, Q, FIGURE, DIV}
        /\ ~IsRecoveryFrame(ignore_stack[1])
        /\ ignore_stack[1] \notin SOMETIMES_NOT_CLOSED_TAGS
        /\ ignore_stack[1] \notin NEVER_CLOSED_TAGS

C24_Witness ==
    /\ fed = SubSeq(ImgThenEnclosingEnd, 1, 4)
    /\ calls = 2
    /\ ignore_stack = <<FIGURE>>

----------------------------------------------------------------------------
(* C25: a self-closing tag, delivered as a start tag immediately followed by an
   end tag of the same name, leaves the suppression stack exactly as it was
   before the pair, whether the stack was empty, topped by an open frame or
   topped by a RecoveryFrame of that or another name, and whether or not the
   tag is void or matches an ignore rule. *)
C25_SelfClosingTagKeepsTheStack ==
    (/\ Len(fed) >= 2
     /\ fed[Len(fed) - 1].kind = "start"
     /\ fed[Len(fed)].kind = "end"
     /\ fed[Len(fed)].tag = fed[Len(fed) - 1].tag)
    => ignore_stack = fed_alone(fed, Len(fed) - 2).stack

----------------------------------------------------------------------------
(* C29: for all non-negative integers number, smallest_power and
   number_decimals, _get_some_powers(number, smallest_power, number_decimals)
   equals (number div 10^smallest_power) mod 10^number_decimals: the
   number_decimals decimal digits from position smallest_power (321 for 321444
   at power 3 with three digits). *)
C29_SomePowersAreTheDigitsFromPosition ==
    powers.called =>
        powers.digits =
            (powers.number \div (10 ^ powers.smallest_power))
                % (10 ^ powers.number_decimals)

C29_Witness ==
    /\ powers.called
    /\ powers.number = 321444
    /\ powers.smallest_power = 3
    /\ powers.number_decimals = 3
    /\ powers.digits = 321

----------------------------------------------------------------------------
(* C30: after any sequence of parsed pages a Magazine's text list contains no
   two texts with the same content hash, every listed text is a proper article,
   and the hash set is exactly the set of hashes of the listed texts; a text
   whose hash is already in the set changes neither the list nor the set, so a
   page only appends texts whose hashes were not in the set. *)
C30_MagazineTextsAreUniqueArticles ==
    /\ [](\A i \in 1..Len(magazine._texts), j \in 1..Len(magazine._texts) :
            i # j => get_hash(magazine._texts[i]) # get_hash(magazine._texts[j]))
    /\ [](\A i \in 1..Len(magazine._texts) :
            LET listed == magazine._texts[i] IN
            /\ listed.has_headline
            /\ Len(listed._headline) > MinHeadline
            /\ Len(listed._content) - Len(listed._headline) > MinBody)
    /\ [](magazine._text_hashes =
            {get_hash(magazine._texts[i]) : i \in 1..Len(magazine._texts)})
    /\ [][/\ Len(magazine'._texts) >= Len(magazine._texts)
          /\ SubSeq(magazine'._texts, 1, Len(magazine._texts)) = magazine._texts
          /\ \A i \in (Len(magazine._texts) + 1)..Len(magazine'._texts) :
                get_hash(magazine'._texts[i]) \notin magazine._text_hashes]_vars

C30_Witness ==
    /\ Len(magazine.pages) = 2
    /\ magazine.pages[1] = [links |-> <<1, 2>>, parsed |-> 2]
    /\ magazine.pages[2] = [links |-> <<3, 4, 1>>, parsed |-> 3]
    /\ magazine._texts = <<Texts[1], Texts[3]>>
    /\ Cardinality(magazine._text_hashes) = 2

----------------------------------------------------------------------------
(* C28 *)

\* the call was made with a format that prefers audio
AudioPreferred == article.article_format \in {"AUDIO_OVER_HTML", "AUDIO_OVER_PDF"}

\* the text format the call ends up looking for
TextFormat ==
    CASE article.article_format = "AUDIO_OVER_HTML" -> "HTML"
      [] article.article_format = "AUDIO_OVER_PDF" -> "PDF"
      [] OTHER -> article.article_format

\* the download the call depends on failed: the article page, the audio file
\* of a page with an audio URL, or the PDF
DownloadFailed ==
    \/ ~article.web.article
    \/ AudioPreferred /\ article.web.audio_url /\ ~article.web.audio_response
    \/ /\ ~(AudioPreferred /\ article.web.audio_url)
       /\ TextFormat = "PDF"
       /\ ~article.web.pdf_response

(* C28: get_article_by_number returns a format that is AUDIO, PDF, HTML or None
   and never AUDIO_OVER_HTML or AUDIO_OVER_PDF: with an audio-preferring format
   it returns AUDIO when the page has an audio URL and its download succeeds,
   falls back to the secondary format (HTML or PDF) when the page has no audio
   URL, and returns a falsy response with format None when the article page,
   the audio download or the PDF download fails; it raises only for a request
   of plain AUDIO, which it does not implement. *)
C28_ReturnedFormatIsNeverAudioOver ==
    article.called =>
        /\ article.result.raised = "none" =>
               article.result.format \in {"AUDIO", "PDF", "HTML", "None"}
        /\ article.result.raised # "none" =>
               (article.article_format = "AUDIO" /\ article.web.article)
        /\ (AudioPreferred /\ ~DownloadFailed /\ article.web.audio_url) =>
               (article.result.format = "AUDIO" /\ article.result.truthy)
        /\ (AudioPreferred /\ ~DownloadFailed /\ ~article.web.audio_url) =>
               article.result.format = TextFormat
        /\ (DownloadFailed /\ article.result.raised = "none") =>
               (article.result.format = "None" /\ ~article.result.truthy)

C28_Witness ==
    /\ article.called
    /\ article.article_format = "AUDIO_OVER_PDF"
    /\ article.web.article
    /\ ~article.web.audio_url
    /\ article.web.pdf_response
    /\ article.result.format = "PDF"
    /\ article.result.returned = "pdf_response.content"

----------------------------------------------------------------------------
(* C27 *)

\* the set of numbers stored under the key, as read_known_numbers_from_config
\* returns it
Stored(file) == read_known_numbers_from_config(file).values

\* the integers the integer-convertible entries of a numbers argument stand for
Convertible(nums) ==
    {int(nums[k]).value : k \in {n \in 1..Len(nums) : int(nums[n]).ok}}

\* this step is a call of append_write_known_numbers_to_config that returned
AppendWriteStep ==
    /\ op' = "append_write_known_numbers_to_config"
    /\ raised' = "none"
    /\ <<config_file, written, numbers>>' # <<config_file, written, numbers>>

(* C27: after append_write_known_numbers_to_config(file, section, key, numbers)
   the set of numbers stored under the key equals the set stored before the
   call united with the integer-convertible entries of numbers: no stored
   number is ever removed, non-numeric entries are skipped, and a call whose
   numbers are all stored already leaves the file unwritten. *)
C27_StoredNumbersOnlyGrow ==
    [][AppendWriteStep =>
          /\ Stored(config_file') = Stored(config_file) \cup Convertible(numbers')
          /\ Convertible(numbers') \subseteq Stored(config_file) =>
                 (written' = written /\ config_file' = config_file)]_vars

----------------------------------------------------------------------------
(* C26 *)

\* the numbers listed as known in the configuration file
Known(file) == read_known_numbers_from_config(file).values

\* this step is the command unknown after a login that reported a latest article
UnknownStepLoggedIn ==
    /\ op' = "unknown"
    /\ ~any_is_None(session_latest_article')

(* C26: after a successful login that reports the latest article number L,
   the command unknown adds to the identifiers to get every article number
   from 1 to L inclusive that is not listed as known in the configuration
   file, and no number that is listed as known. *)
C26_UnknownAddsFirstToLatest ==
    [][UnknownStepLoggedIn =>
          identifiers_to_get' =
              identifiers_to_get \cup
                  {n \in 1..latest_article(session_latest_article') :
                      n \notin Known(config_file)}]_vars

====
